---- MODULE Spec2Model ----
(***************************************************************************)
(* FCFS scheduling simulator (src/app/projects/fcfs/page.tsx).             *)
(*                                                                         *)
(* Strings are modelled as sequences of one-character strings, so that     *)
(* "" is <<>>, `P${n}` is <<"P">> \o the decimal digits of n, and          *)
(* localeCompare is a lexicographic comparison that can be computed.       *)
(* A nullable value (T | null, number | "") is a sequence of length <= 1:  *)
(* <<>> is null / "", <<v>> is the value v.                                *)
(***************************************************************************)
EXTENDS Integers, Sequences, FiniteSets, TLC

\* ---------------------------------------------------------------- bounds
\* SpecFcfs: longest process list handed to fcfs, largest arrival and burst.
MaxProcs == 2
MaxArrival == 2
MaxBurst == 2
\* Spec: most rows the form may hold, most updateField calls in one run.
MaxRows == 4
MaxEdits == 4
\* SpecValidate: most rows of a batch handed to simulate.
MaxBatch == 2

\* ------------------------------------------------------- program constants
MAX_TIME_UNIT == 500

\* --------------------------------------------------------------- strings
DigitChars == <<"0", "1", "2", "3", "4", "5", "6", "7", "8", "9">>

IsDigit(c) == \E d \in 1..10 : DigitChars[d] = c

DigitVal(c) == (CHOOSE d \in 1..10 : DigitChars[d] = c) - 1

\* Number.prototype.toString for a non-negative integer (template literal).
RECURSIVE NumToStr(_)
NumToStr(n) ==
  IF n < 10 THEN <<DigitChars[n + 1]>>
  ELSE NumToStr(n \div 10) \o <<DigitChars[(n % 10) + 1]>>

\* `P${n}`
PidOf(n) == <<"P">> \o NumToStr(n)

\* /^\d*$/.test(value)
AllDigits(value) == \A k \in 1..Len(value) : IsDigit(value[k])

\* parseInt(value) for a non-empty string of digits.
RECURSIVE parseInt(_)
parseInt(value) ==
  IF Len(value) = 0 THEN 0
  ELSE 10 * parseInt(SubSeq(value, 1, Len(value) - 1)) + DigitVal(value[Len(value)])

\* String.prototype.trim: strip leading and trailing spaces.
RECURSIVE trim(_)
trim(s) ==
  IF Len(s) = 0 THEN s
  ELSE IF Head(s) = " " THEN trim(Tail(s))
  ELSE IF s[Len(s)] = " " THEN trim(SubSeq(s, 1, Len(s) - 1))
  ELSE s

\* Collation rank of a character: space, then digits, then letters.
CharRank(c) ==
  IF c = " " THEN 0
  ELSE IF IsDigit(c) THEN 1 + DigitVal(c)
  ELSE IF c = "D" THEN 11
  ELSE IF c = "E" THEN 12
  ELSE IF c = "I" THEN 13
  ELSE IF c = "L" THEN 14
  ELSE 15

\* localeCompare with the option {numeric: true}: "P2" before "P10".
localeCompareNumeric(a, b) ==
  LET na == parseInt(Tail(a))
      nb == parseInt(Tail(b))
  IN IF na < nb THEN -1 ELSE IF na > nb THEN 1 ELSE 0

\* a.localeCompare(b): character by character, a proper prefix first.
RECURSIVE localeCompare(_, _)
localeCompare(a, b) ==
  IF Len(a) = 0 /\ Len(b) = 0 THEN 0
  ELSE IF Len(a) = 0 THEN -1
  ELSE IF Len(b) = 0 THEN 1
  ELSE IF CharRank(Head(a)) < CharRank(Head(b)) THEN -1
  ELSE IF CharRank(Head(a)) > CharRank(Head(b)) THEN 1
  ELSE localeCompare(Tail(a), Tail(b))

Repeat(x, n) == [k \in 1..n |-> x]

\* -------------------------------------------------------------- nullable
Null == <<>>
Some(v) == <<v>>
IsNull(x) == Len(x) = 0
Val(x) == x[1]

\* ------------------------------------------------------------------ fcfs
IDLE == <<"I", "D", "L", "E">>

\* The comparator without the tie-break on pid.
byArrivalOnly(a, b) == a.arrival - b.arrival

\* (a, b) => a.arrival - b.arrival || a.pid.localeCompare(b.pid)
byArrivalThenPid(a, b) ==
  IF a.arrival - b.arrival # 0 THEN a.arrival - b.arrival
  ELSE localeCompare(a.pid, b.pid)

\* (a, b) => a.pid.localeCompare(b.pid)
byPid(a, b) == localeCompare(a.pid, b.pid)

\* Array.prototype.sort is stable: an element goes after every element that
\* does not compare greater than it.  cmp is "arrival" or "pid".
Cmp(cmp, a, b) == IF cmp = "arrival" THEN byArrivalThenPid(a, b) ELSE byPid(a, b)

RECURSIVE InsertSorted(_, _, _)
InsertSorted(cmp, x, s) ==
  IF Len(s) = 0 THEN <<x>>
  ELSE IF Cmp(cmp, s[Len(s)], x) <= 0 THEN Append(s, x)
  ELSE Append(InsertSorted(cmp, x, SubSeq(s, 1, Len(s) - 1)), s[Len(s)])

\* The copy left in the order of the input list.
sortNone(s, cmp) == s

RECURSIVE sort(_, _)
sort(s, cmp) ==
  IF Len(s) = 0 THEN <<>>
  ELSE InsertSorted(cmp, s[Len(s)], sort(SubSeq(s, 1, Len(s) - 1), cmp))

\* The state of the loop of fcfs before its first iteration.
FcfsStart == [time |-> 0, timeline |-> <<>>, done |-> <<>>]

\* startTime without the assignment startTime = current.arrival.
startTimeNoWait(time, current) == time

\* let startTime = time; if (current.arrival > time) startTime = current.arrival
startTime(time, current) ==
  IF current.arrival > time THEN current.arrival ELSE time

\* The idle loop never run.
idleUnitsNone(time, current) == <<>>

\* The idle loop with i <= idleDuration.
idleUnitsOneMore(time, current) ==
  IF current.arrival > time
    THEN Repeat(IDLE, current.arrival - time + 1)
    ELSE <<>>

\* The IDLE units pushed when current.arrival > time.
idleUnits(time, current) ==
  IF current.arrival > time
    THEN LET idleDuration == current.arrival - time
         IN Repeat(IDLE, idleDuration)
    ELSE <<>>

\* The execution loop from i = 1.
execUnitsOneLess(current) == Repeat(current.pid, current.burst - 1)

\* The units pushed by the execution loop.
execUnits(current) == Repeat(current.pid, current.burst)

\* The record with turnaround measured from time 0.
resultOfNoArrival(current, completionTime) ==
  [pid |-> current.pid,
   arrival |-> current.arrival,
   burst |-> current.burst,
   completion |-> completionTime,
   turnaround |-> completionTime,
   waiting |-> completionTime - current.arrival - current.burst]

\* The record pushed to done.
resultOf(current, completionTime) ==
  [pid |-> current.pid,
   arrival |-> current.arrival,
   burst |-> current.burst,
   completion |-> completionTime,
   turnaround |-> completionTime - current.arrival,
   waiting |-> completionTime - current.arrival - current.burst]

\* One iteration of `for (const current of procs)`.
FcfsIter(st, current) ==
  LET completionTime == startTime(st.time, current) + current.burst
  IN [time |-> completionTime,
      timeline |-> st.timeline \o idleUnits(st.time, current) \o execUnits(current),
      done |-> Append(st.done, resultOf(current, completionTime))]

RECURSIVE FcfsLoop(_, _)
FcfsLoop(st, procs) ==
  IF Len(procs) = 0 THEN st
  ELSE FcfsLoop(FcfsIter(st, Head(procs)), Tail(procs))

fcfs(processes) ==
  LET procs == sort(processes, "arrival")
      final == FcfsLoop(FcfsStart, procs)
  IN [timeline |-> final.timeline, results |-> final.done]

\* ------------------------------------------------------- component state
\* getInitialProcesses()
getInitialProcesses ==
  << [pid |-> <<"P", "1">>, arrival |-> Null, burst |-> Null],
     [pid |-> <<"P", "2">>, arrival |-> Null, burst |-> Null],
     [pid |-> <<"P", "3">>, arrival |-> Null, burst |-> Null],
     [pid |-> <<"P", "4">>, arrival |-> Null, burst |-> Null] >>

\* The new value of processes after updateField(i, field, value).
updateField(ps, i, field, value) ==
  IF field = "pid" THEN [ps EXCEPT ![i].pid = value]
  ELSE IF ~AllDigits(value) THEN ps
  ELSE [ps EXCEPT ![i][field] =
          IF Len(value) = 0 THEN Null ELSE Some(parseInt(value))]

\* removeAt without the renumbering map.
removeAtKeepPids(ps, i) == SubSeq(ps, 1, i - 1) \o SubSeq(ps, i + 1, Len(ps))

\* copy.splice(i, 1) followed by the renumbering map.
removeAt(ps, i) ==
  LET copy == SubSeq(ps, 1, i - 1) \o SubSeq(ps, i + 1, Len(ps))
  IN [k \in 1..Len(copy) |-> [copy[k] EXCEPT !.pid = PidOf(k)]]

\* The messages simulate passes to setError.
MsgEmptyPid == <<"PID cannot be empty for any process.">>
MsgIncomplete(pid) ==
  <<"Process ">> \o pid \o <<": Arrival Time and Burst Time must both be filled.">>
MsgNotNumber(pid) ==
  <<"Process ">> \o pid \o <<": Arrival Time and Burst Time must be valid numbers.">>
MsgOutOfRange(pid) ==
  <<"Process ">> \o pid \o <<": Arrival Time must be >= 0 and Burst Time must be >= 1.">>
MsgTooLarge(pid) ==
  <<"Process ">> \o pid \o <<": Value too large. Times must be <= ">>
    \o NumToStr(MAX_TIME_UNIT) \o <<".">>
MsgEmptyBatch == <<"Please define at least one process.">>

\* Number(x) of a number is that number; isNaN of an integer is false.
Number(x) == Val(x)
isNaN(n) == n \notin Int

\* checkRow with `||` for `&&` in the test of a blank row: a half-filled row
\* is skipped as well.
checkRowSkipHalf(p) ==
  IF Len(trim(p.pid)) = 0 THEN [kind |-> "error", error |-> MsgEmptyPid]
  ELSE IF IsNull(p.arrival) \/ IsNull(p.burst) THEN [kind |-> "skip"]
  ELSE LET arrival == Number(p.arrival)
           burst == Number(p.burst)
       IN IF isNaN(arrival) \/ isNaN(burst)
            THEN [kind |-> "error", error |-> MsgNotNumber(p.pid)]
          ELSE IF arrival < 0 \/ burst <= 0
            THEN [kind |-> "error", error |-> MsgOutOfRange(p.pid)]
          ELSE IF arrival > MAX_TIME_UNIT \/ burst > MAX_TIME_UNIT
            THEN [kind |-> "error", error |-> MsgTooLarge(p.pid)]
          ELSE [kind |-> "push",
                proc |-> [pid |-> p.pid, arrival |-> arrival, burst |-> burst]]

\* checkRow with the test against MAX_TIME_UNIT before the range test.
checkRowLargeFirst(p) ==
  IF Len(trim(p.pid)) = 0 THEN [kind |-> "error", error |-> MsgEmptyPid]
  ELSE IF IsNull(p.arrival) /\ IsNull(p.burst) THEN [kind |-> "skip"]
  ELSE IF IsNull(p.arrival) \/ IsNull(p.burst)
    THEN [kind |-> "error", error |-> MsgIncomplete(p.pid)]
  ELSE LET arrival == Number(p.arrival)
           burst == Number(p.burst)
       IN IF isNaN(arrival) \/ isNaN(burst)
            THEN [kind |-> "error", error |-> MsgNotNumber(p.pid)]
          ELSE IF arrival > MAX_TIME_UNIT \/ burst > MAX_TIME_UNIT
            THEN [kind |-> "error", error |-> MsgTooLarge(p.pid)]
          ELSE IF arrival < 0 \/ burst <= 0
            THEN [kind |-> "error", error |-> MsgOutOfRange(p.pid)]
          ELSE [kind |-> "push",
                proc |-> [pid |-> p.pid, arrival |-> arrival, burst |-> burst]]

\* checkRow with `burst < 0` for `burst <= 0`.
checkRowBurstZero(p) ==
  IF Len(trim(p.pid)) = 0 THEN [kind |-> "error", error |-> MsgEmptyPid]
  ELSE IF IsNull(p.arrival) /\ IsNull(p.burst) THEN [kind |-> "skip"]
  ELSE IF IsNull(p.arrival) \/ IsNull(p.burst)
    THEN [kind |-> "error", error |-> MsgIncomplete(p.pid)]
  ELSE LET arrival == Number(p.arrival)
           burst == Number(p.burst)
       IN IF isNaN(arrival) \/ isNaN(burst)
            THEN [kind |-> "error", error |-> MsgNotNumber(p.pid)]
          ELSE IF arrival < 0 \/ burst < 0
            THEN [kind |-> "error", error |-> MsgOutOfRange(p.pid)]
          ELSE IF arrival > MAX_TIME_UNIT \/ burst > MAX_TIME_UNIT
            THEN [kind |-> "error", error |-> MsgTooLarge(p.pid)]
          ELSE [kind |-> "push",
                proc |-> [pid |-> p.pid, arrival |-> arrival, burst |-> burst]]

\* The body of `for (const p of processes)` in simulate for the row p:
\* "error" with the message, "skip" for continue, "push" with the element.
checkRow(p) ==
  IF Len(trim(p.pid)) = 0 THEN [kind |-> "error", error |-> MsgEmptyPid]
  ELSE IF IsNull(p.arrival) /\ IsNull(p.burst) THEN [kind |-> "skip"]
  ELSE IF IsNull(p.arrival) \/ IsNull(p.burst)
    THEN [kind |-> "error", error |-> MsgIncomplete(p.pid)]
  ELSE LET arrival == Number(p.arrival)
           burst == Number(p.burst)
       IN IF isNaN(arrival) \/ isNaN(burst)
            THEN [kind |-> "error", error |-> MsgNotNumber(p.pid)]
          ELSE IF arrival < 0 \/ burst <= 0
            THEN [kind |-> "error", error |-> MsgOutOfRange(p.pid)]
          ELSE IF arrival > MAX_TIME_UNIT \/ burst > MAX_TIME_UNIT
            THEN [kind |-> "error", error |-> MsgTooLarge(p.pid)]
          ELSE [kind |-> "push",
                proc |-> [pid |-> p.pid, arrival |-> arrival, burst |-> burst]]

\* validateFrom with `continue` where the loop returns an error.
RECURSIVE validateFromLenient(_, _, _)
validateFromLenient(ps, k, validProcesses) ==
  IF k > Len(ps) THEN
    IF Len(validProcesses) = 0
      THEN [error |-> MsgEmptyBatch, validProcesses |-> validProcesses]
      ELSE [error |-> <<>>, validProcesses |-> validProcesses]
  ELSE LET r == checkRow(ps[k])
       IN IF r.kind = "error"
            THEN validateFromLenient(ps, k + 1, validProcesses)
          ELSE IF r.kind = "skip" THEN validateFromLenient(ps, k + 1, validProcesses)
          ELSE validateFromLenient(ps, k + 1, Append(validProcesses, r.proc))

\* validateFrom without the test validProcesses.length === 0.
RECURSIVE validateFromNoEmptyTest(_, _, _)
validateFromNoEmptyTest(ps, k, validProcesses) ==
  IF k > Len(ps) THEN [error |-> <<>>, validProcesses |-> validProcesses]
  ELSE LET r == checkRow(ps[k])
       IN IF r.kind = "error"
            THEN [error |-> r.error, validProcesses |-> validProcesses]
          ELSE IF r.kind = "skip"
            THEN validateFromNoEmptyTest(ps, k + 1, validProcesses)
          ELSE validateFromNoEmptyTest(ps, k + 1, Append(validProcesses, r.proc))

\* The validation loop of simulate from row k on, validProcesses so far.
RECURSIVE validateFrom(_, _, _)
validateFrom(ps, k, validProcesses) ==
  IF k > Len(ps) THEN
    IF Len(validProcesses) = 0
      THEN [error |-> MsgEmptyBatch, validProcesses |-> validProcesses]
      ELSE [error |-> <<>>, validProcesses |-> validProcesses]
  ELSE LET r == checkRow(ps[k])
       IN IF r.kind = "error"
            THEN [error |-> r.error, validProcesses |-> validProcesses]
          ELSE IF r.kind = "skip" THEN validateFrom(ps, k + 1, validProcesses)
          ELSE validateFrom(ps, k + 1, Append(validProcesses, r.proc))

validate(ps) == validateFrom(ps, 1, <<>>)

VARIABLES
  processes,  \* useState: the rows of the form
  results,    \* useState: ProcessResult[] | null
  timeline,   \* useState: (string | "IDLE")[] | null
  error,      \* useState: the error message, "" for none
  edits,      \* number of updateField calls so far
  lastOp,     \* the handler that ran last
  fcfsArg,    \* the list the last handler passed to fcfs, null if it made no call
  input,      \* SpecFcfs: the argument of the fcfs call
  pc,         \* SpecFcfs: position in fcfs
  procs,      \* SpecFcfs: the sorted copy
  next,       \* SpecFcfs: index in procs of the next loop iteration
  loop        \* SpecFcfs: time, timeline and done of fcfs

vars == <<processes, results, timeline, error, edits, lastOp, fcfsArg,
          input, pc, procs, next, loop>>
uiVars == <<processes, results, timeline, error, edits, lastOp, fcfsArg>>
fcfsVars == <<input, pc, procs, next, loop>>

InitUI ==
  /\ processes = getInitialProcesses
  /\ results = Null
  /\ timeline = Null
  /\ error = <<>>
  /\ edits = 0
  /\ lastOp = "mount"
  /\ fcfsArg = Null

InitIdleFcfs ==
  /\ input = <<>>
  /\ pc = "idle"
  /\ procs = <<>>
  /\ next = 1
  /\ loop = FcfsStart

\* What the user can type or paste into an arrival or burst box.
Typed == { <<>>, <<"0">>, <<"1">>, <<"5", "0", "1">>, <<"-", "1">> }

\* The fields the form wires to updateField (the pid box is read-only).
EditableFields == {"arrival", "burst"}

UpdateField ==
  /\ edits < MaxEdits
  /\ \E i \in 1..Len(processes), field \in EditableFields, value \in Typed :
       processes' = updateField(processes, i, field, value)
  /\ error' = <<>>
  /\ edits' = edits + 1
  /\ lastOp' = "updateField"
  /\ fcfsArg' = Null
  /\ UNCHANGED <<results, timeline>>
  /\ UNCHANGED fcfsVars

\* addProcess without setTimeline(null).
AddProcessKeepTimeline ==
  /\ Len(processes) < MaxRows
  /\ processes' = Append(processes,
       [pid |-> PidOf(Len(processes) + 1), arrival |-> Null, burst |-> Null])
  /\ results' = Null
  /\ lastOp' = "addProcess"
  /\ fcfsArg' = Null
  /\ UNCHANGED <<timeline, error, edits>>
  /\ UNCHANGED fcfsVars

AddProcess ==
  /\ Len(processes) < MaxRows
  /\ processes' = Append(processes,
       [pid |-> PidOf(Len(processes) + 1), arrival |-> Null, burst |-> Null])
  /\ results' = Null
  /\ timeline' = Null
  /\ lastOp' = "addProcess"
  /\ fcfsArg' = Null
  /\ UNCHANGED <<error, edits>>
  /\ UNCHANGED fcfsVars

RemoveProcess ==
  /\ \E i \in 1..Len(processes) : processes' = removeAt(processes, i)
  /\ results' = Null
  /\ timeline' = Null
  /\ error' = <<>>
  /\ lastOp' = "removeProcess"
  /\ fcfsArg' = Null
  /\ UNCHANGED edits
  /\ UNCHANGED fcfsVars

ResetProcesses ==
  /\ processes' = getInitialProcesses
  /\ results' = Null
  /\ timeline' = Null
  /\ error' = <<>>
  /\ lastOp' = "resetProcesses"
  /\ fcfsArg' = Null
  /\ UNCHANGED edits
  /\ UNCHANGED fcfsVars

Simulate ==
  /\ LET v == validate(processes)
     IN IF Len(v.error) > 0
          THEN /\ error' = v.error
               /\ results' = Null
               /\ timeline' = Null
               /\ fcfsArg' = Null
          ELSE LET out == fcfs(v.validProcesses)
               IN /\ error' = <<>>
                  /\ results' = Some(sort(out.results, "pid"))
                  /\ timeline' = Some(out.timeline)
                  /\ fcfsArg' = Some(v.validProcesses)
  /\ lastOp' = "simulate"
  /\ UNCHANGED <<processes, edits>>
  /\ UNCHANGED fcfsVars

Init == InitUI /\ InitIdleFcfs

Next ==
  \/ UpdateField
  \/ AddProcess
  \/ RemoveProcess
  \/ ResetProcesses
  \/ Simulate

Spec == Init /\ [][Next]_vars

\* ------------------------------------------------- fcfs, step by step
PidSet == { PidOf(1), PidOf(2), PidOf(10) }

ProcSet == [pid : PidSet, arrival : 0..MaxArrival, burst : 1..MaxBurst]

\* The valid process lists: non-empty, arrival >= 0, burst >= 1.
Inputs == UNION { [1..n -> ProcSet] : n \in 1..MaxProcs }

InitFcfs ==
  /\ InitUI
  /\ input \in Inputs
  /\ pc = "call"
  /\ procs = <<>>
  /\ next = 1
  /\ loop = FcfsStart

FcfsSort ==
  /\ pc = "call"
  /\ procs' = sort(input, "arrival")
  /\ pc' = "loop"
  /\ UNCHANGED <<input, next, loop>>
  /\ UNCHANGED uiVars

FcfsNext ==
  /\ pc = "loop"
  /\ next <= Len(procs)
  /\ loop' = FcfsIter(loop, procs[next])
  /\ next' = next + 1
  /\ UNCHANGED <<input, pc, procs>>
  /\ UNCHANGED uiVars

FcfsReturn ==
  /\ pc = "loop"
  /\ next > Len(procs)
  /\ pc' = "done"
  /\ UNCHANGED <<input, procs, next, loop>>
  /\ UNCHANGED uiVars

NextFcfs == FcfsSort \/ FcfsNext \/ FcfsReturn

SpecFcfs == InitFcfs /\ [][NextFcfs]_vars

\* What fcfs returns once pc = "done".
Returned == [timeline |-> loop.timeline, results |-> loop.done]

\* The step-by-step run returns what the operator fcfs computes.
ReturnIsFcfs == pc = "done" => Returned = fcfs(input)

\* ------------------------------------------------------ claims about fcfs
Max(a, b) == IF a >= b THEN a ELSE b

RECURSIVE SumBurst(_)
SumBurst(s) == IF Len(s) = 0 THEN 0 ELSE Head(s).burst + SumBurst(Tail(s))

\* Number of positions of the sequence s that hold x.
Count(s, x) == Cardinality({ t \in 1..Len(s) : s[t] = x })

\* UTF-16 code unit of the characters that occur in ids.
CodeUnit(c) ==
  IF IsDigit(c) THEN 48 + DigitVal(c)
  ELSE IF c = " " THEN 32
  ELSE IF c = "D" THEN 68
  ELSE IF c = "E" THEN 69
  ELSE IF c = "I" THEN 73
  ELSE IF c = "L" THEN 76
  ELSE 80

\* Plain string order a <= b: code unit by code unit, a prefix first.
RECURSIVE StrLeq(_, _)
StrLeq(a, b) ==
  IF Len(a) = 0 THEN TRUE
  ELSE IF Len(b) = 0 THEN FALSE
  ELSE IF CodeUnit(Head(a)) # CodeUnit(Head(b))
    THEN CodeUnit(Head(a)) < CodeUnit(Head(b))
  ELSE StrLeq(Tail(a), Tail(b))

\* The input fields of a result.
AsInput(r) == [pid |-> r.pid, arrival |-> r.arrival, burst |-> r.burst]

\* The results are the processes of the list s, each as often as it is in s.
SameProcesses(res, s) ==
  /\ Len(res) = Len(s)
  /\ \A q \in ProcSet :
       Cardinality({ k \in 1..Len(res) : AsInput(res[k]) = q })
         = Cardinality({ k \in 1..Len(s) : s[k] = q })

DistinctPids(s) == \A i, j \in 1..Len(s) : s[i].pid = s[j].pid => i = j

\* Completion of the process executed just before the k-th (0 for the first).
PrevCompletion(k) == IF k = 1 THEN 0 ELSE loop.done[k - 1].completion

\* The time at which the k-th executed process starts.
StartOf(k) == Max(PrevCompletion(k), loop.done[k].arrival)

\* C1: fcfs executes the processes of its input, and returns their results,
\* in ascending arrival order; processes with equal arrival in ascending
\* plain string order of their ids ("P10" before "P2"), whatever the order
\* of the input list.
C1_ArrivalThenIdOrder ==
  pc = "done" =>
    /\ SameProcesses(loop.done, input)
    /\ \A i, j \in 1..Len(loop.done) :
         i < j =>
           /\ loop.done[i].arrival <= loop.done[j].arrival
           /\ loop.done[i].arrival = loop.done[j].arrival
                => StrLeq(loop.done[i].pid, loop.done[j].pid)

\* P2 is listed before P10 with the same arrival, and P10 ran first.
C1_Witness ==
  /\ pc = "done"
  /\ Len(input) = 2
  /\ input[1].pid = PidOf(2)
  /\ input[2].pid = PidOf(10)
  /\ input[1].arrival = input[2].arrival
  /\ loop.done[1].pid = PidOf(10)
  /\ loop.done[2].pid = PidOf(2)

\* C2: every executed process starts at max(completion of the process
\* before it, its arrival), holds the burst timeline units [start,
\* start + burst) with its id (and, when ids are distinct, no other unit),
\* and has completion = start + burst, turnaround = completion - arrival,
\* waiting = turnaround - burst.
C2_StartUnitsMetrics ==
  \A k \in 1..Len(loop.done) :
    LET r == loop.done[k]
        start == StartOf(k)
    IN /\ r.completion = start + r.burst
       /\ r.turnaround = r.completion - r.arrival
       /\ r.waiting = r.turnaround - r.burst
       /\ Len(loop.timeline) >= start + r.burst
       /\ \A t \in start..(start + r.burst - 1) : loop.timeline[t + 1] = r.pid
       /\ DistinctPids(input) =>
            { t \in 0..(Len(loop.timeline) - 1) : loop.timeline[t + 1] = r.pid }
              = start..(start + r.burst - 1)

\* Scenario A's shape: the second process arrived while the first ran and
\* waited for it.
C2_Witness ==
  /\ pc = "done"
  /\ Len(loop.done) = 2
  /\ loop.done[1].burst = 2
  /\ loop.done[2].arrival = 1
  /\ loop.done[2].waiting = 1
  /\ loop.done[2].completion = 2 + loop.done[2].burst

\* C3: the returned timeline is as long as the completion time of the last
\* returned result; every unit is IDLE or the id of the one process whose
\* interval [completion - burst, completion) covers it, and an IDLE unit is
\* covered by no process.
C3_TimelineCoverage ==
  pc = "done" =>
    LET res == Returned.results
        tl == Returned.timeline
        Covering(t) == { k \in 1..Len(res) :
                           res[k].completion - res[k].burst <= t
                             /\ t < res[k].completion }
    IN /\ Len(tl) = res[Len(res)].completion
       /\ \A t \in 0..(Len(tl) - 1) :
            IF tl[t + 1] = IDLE THEN Covering(t) = {}
            ELSE /\ Cardinality(Covering(t)) = 1
                 /\ \A k \in Covering(t) : tl[t + 1] = res[k].pid

\* A returned timeline with an idle unit between two processes.
C3_Witness ==
  /\ pc = "done"
  /\ Len(loop.done) = 2
  /\ Len(loop.timeline) = 3
  /\ loop.timeline[1] # IDLE
  /\ loop.timeline[2] = IDLE
  /\ loop.timeline[3] # IDLE

\* C4: an iteration of fcfs for a process whose arrival is greater than the
\* clock appends exactly arrival - clock IDLE units and then the process's
\* burst units, and the process starts at its arrival; with arrival <= clock
\* it appends no IDLE unit.  A single process arriving at a > 0 yields a IDLE
\* units, then its burst units, and waiting 0.
C4_IdleGap ==
  /\ [][FcfsNext =>
          LET current == procs[next]
              clock == loop.time
              gap == IF current.arrival > clock THEN current.arrival - clock ELSE 0
              old == Len(loop.timeline)
              r == loop'.done[Len(loop'.done)]
          IN /\ SubSeq(loop'.timeline, 1, old) = loop.timeline
             /\ Len(loop'.timeline) = old + gap + current.burst
             /\ \A t \in 1..gap : loop'.timeline[old + t] = IDLE
             /\ \A t \in 1..current.burst : loop'.timeline[old + gap + t] = current.pid
             /\ r.completion - r.burst
                  = (IF current.arrival > clock THEN current.arrival ELSE clock)]_vars
  /\ [](pc = "done" /\ Len(input) = 1 /\ input[1].arrival > 0 =>
          /\ loop.timeline = Repeat(IDLE, input[1].arrival)
                               \o Repeat(input[1].pid, input[1].burst)
          /\ loop.done[1].waiting = 0)

\* Scenario B's shape: one process arriving at 2 with burst 2.
C4_Witness ==
  /\ pc = "done"
  /\ Len(input) = 1
  /\ input[1].arrival = 2
  /\ loop.timeline = <<IDLE, IDLE, input[1].pid, input[1].pid>>
  /\ loop.done[1].waiting = 0

\* C5: on valid input every result has waiting >= 0 and
\* completion >= arrival + burst.
C5_WaitingNonNegative ==
  \A k \in 1..Len(loop.done) :
    /\ loop.done[k].waiting >= 0
    /\ loop.done[k].completion >= loop.done[k].arrival + loop.done[k].burst

\* A process that arrived after an idle gap (waiting 0) behind one that ran.
C5_Witness ==
  /\ pc = "done"
  /\ Len(loop.done) = 2
  /\ loop.done[1].completion < loop.done[2].arrival
  /\ loop.done[2].waiting = 0
  /\ loop.done[2].completion = loop.done[2].arrival + loop.done[2].burst

\* C6: the burst times of the input sum to the number of non-IDLE units of
\* the returned timeline; with distinct ids every id holds exactly its burst
\* units.
C6_Conservation ==
  pc = "done" =>
    /\ SumBurst(input) = Len(Returned.timeline) - Count(Returned.timeline, IDLE)
    /\ DistinctPids(input) =>
         \A k \in 1..Len(input) :
           Count(Returned.timeline, input[k].pid) = input[k].burst

\* Two processes with different bursts and an idle unit in the timeline.
C6_Witness ==
  /\ pc = "done"
  /\ Len(input) = 2
  /\ DistinctPids(input)
  /\ input[1].burst # input[2].burst
  /\ Count(loop.timeline, IDLE) = 1
  /\ Len(loop.timeline) = 4

\* ------------------------------------------------ claims about simulate
\* The rules of the validation, row by row.
RowBlankPid(p) == \A k \in 1..Len(p.pid) : p.pid[k] = " "
RowBlank(p) == IsNull(p.arrival) /\ IsNull(p.burst)
RowFilled(p) == ~IsNull(p.arrival) /\ ~IsNull(p.burst)
RowIncomplete(p) == IsNull(p.arrival) # IsNull(p.burst)
RowOutOfRange(p) == RowFilled(p) /\ (Val(p.arrival) < 0 \/ Val(p.burst) < 1)
RowTooLarge(p) ==
  RowFilled(p) /\ (Val(p.arrival) > MAX_TIME_UNIT \/ Val(p.burst) > MAX_TIME_UNIT)
RowViolates(p) ==
  RowBlankPid(p) \/ RowIncomplete(p) \/ RowOutOfRange(p) \/ RowTooLarge(p)

\* No row has both fields filled (also when there is no row).
EmptyBatch(ps) == \A k \in 1..Len(ps) : ~RowFilled(ps[k])

AnyRuleViolated(ps) == EmptyBatch(ps) \/ \E k \in 1..Len(ps) : RowViolates(ps[k])

\* Row k is the first row that violates a rule.
FirstViolation(ps, k) == RowViolates(ps[k]) /\ \A j \in 1..(k - 1) : ~RowViolates(ps[j])

\* The request was rejected: fcfs not invoked, nothing stored, a message set.
Rejected == IsNull(fcfsArg) /\ IsNull(results) /\ IsNull(timeline) /\ Len(error) > 0

\* The filled rows as the processes they describe, in row order.
FilledProcesses(ps) ==
  LET filled == SelectSeq(ps, RowFilled)
  IN [k \in 1..Len(filled) |->
        [pid |-> filled[k].pid,
         arrival |-> Val(filled[k].arrival),
         burst |-> Val(filled[k].burst)]]

\* C7: if any rule is violated by any row when simulate runs, fcfs is not
\* invoked and afterwards results and timeline are null and error is a
\* non-empty message, whatever the rows before the offending one and
\* whatever was on screen before.
C7_AllOrNothing ==
  [][Simulate /\ AnyRuleViolated(processes) => Rejected']_vars

\* A rejected request whose first row was filled and valid.
C7_Witness ==
  /\ lastOp = "simulate"
  /\ Rejected
  /\ Len(processes) >= 2
  /\ RowFilled(processes[1])
  /\ ~RowViolates(processes[1])
  /\ \E k \in 2..Len(processes) : RowViolates(processes[k])

\* C8: a row with exactly one of arrival and burst filled, with no violating
\* row before it, makes simulate reject the batch with the message for an
\* incomplete process naming that row's pid, whatever the other rows hold.
C8_IncompleteRejected ==
  [][Simulate =>
       \A k \in 1..Len(processes) :
         RowIncomplete(processes[k]) /\ FirstViolation(processes, k) =>
           /\ Rejected'
           /\ error' = MsgIncomplete(processes[k].pid)]_vars

\* Rejected for the half-filled row P2 although P1 is filled and valid.
C8_Witness ==
  /\ lastOp = "simulate"
  /\ Len(processes) >= 2
  /\ RowFilled(processes[1])
  /\ ~RowViolates(processes[1])
  /\ RowIncomplete(processes[2])
  /\ error = MsgIncomplete(PidOf(2))
  /\ IsNull(results)
  /\ IsNull(timeline)

\* C9: when no row violates a rule and some row is filled, simulate stores
\* the schedule of the filled rows alone: one result for every filled row,
\* none for a blank row.  When no row is filled (all blank, or no rows) the
\* request is rejected with the message asking for at least one process.
C9_BlankRowsSkipped ==
  [][Simulate =>
       /\ ~AnyRuleViolated(processes) =>
            LET expected == fcfs(FilledProcesses(processes))
            IN /\ error' = <<>>
               /\ results' = Some(sort(expected.results, "pid"))
               /\ timeline' = Some(expected.timeline)
               /\ \A k \in 1..Len(processes) :
                    Cardinality({ n \in 1..Len(Val(results')) :
                                    Val(results')[n].pid = processes[k].pid })
                      = (IF RowFilled(processes[k]) THEN 1 ELSE 0)
       /\ (\A k \in 1..Len(processes) : RowBlank(processes[k])) =>
            /\ Rejected'
            /\ error' = MsgEmptyBatch]_vars

\* A stored schedule of one result while a blank row stands before the
\* filled one.
C9_Witness ==
  /\ lastOp = "simulate"
  /\ ~IsNull(results)
  /\ Len(Val(results)) = 1
  /\ Len(processes) >= 2
  /\ RowBlank(processes[1])
  /\ RowFilled(processes[2])
  /\ Val(results)[1].pid = processes[2].pid

\* The arrival and burst of an element handed to fcfs are in range.
InRange(e) ==
  /\ 0 <= e.arrival
  /\ e.arrival <= MAX_TIME_UNIT
  /\ 1 <= e.burst
  /\ e.burst <= MAX_TIME_UNIT

compressStepNoCount(acc, current) ==
  IF Len(acc) = 0 \/ acc[Len(acc)].id # current
    THEN Append(acc, [id |-> current, duration |-> 1])
    ELSE acc

\* The reducer with every unit pushed as a block of its own.
compressStepNoMerge(acc, current) ==
  Append(acc, [id |-> current, duration |-> 1])

\* The reducer of compressedTimeline: (acc, current) => ...
compressStep(acc, current) ==
  IF Len(acc) = 0 \/ acc[Len(acc)].id # current
    THEN Append(acc, [id |-> current, duration |-> 1])
    ELSE [acc EXCEPT ![Len(acc)].duration = @ + 1]

\* units.reduce(compressStep, []), left to right.
RECURSIVE compress(_)
compress(units) ==
  IF Len(units) = 0 THEN <<>>
  ELSE compressStep(compress(SubSeq(units, 1, Len(units) - 1)), units[Len(units)])

\* const compressedTimeline = timeline ? timeline.reduce(...) : null
compressedTimeline == IF IsNull(timeline) THEN Null ELSE Some(compress(Val(timeline)))

\* SimulationOutput: currentTime after the forEach over the blocks.
RECURSIVE totalDuration(_)
totalDuration(blocks) ==
  IF Len(blocks) = 0 THEN 0
  ELSE totalDuration(SubSeq(blocks, 1, Len(blocks) - 1)) + blocks[Len(blocks)].duration

\* Each block's id repeated duration times, in block order.
RECURSIVE Expand(_)
Expand(blocks) ==
  IF Len(blocks) = 0 THEN <<>>
  ELSE Repeat(Head(blocks).id, Head(blocks).duration) \o Expand(Tail(blocks))

\* C11: expanding the compressed timeline reproduces the timeline fcfs
\* returned, unit by unit.
C11_CompressionRoundTrip ==
  pc = "done" => Expand(compress(Returned.timeline)) = Returned.timeline

\* A returned timeline of four units compressed to three blocks, one IDLE.
C11_Witness ==
  /\ pc = "done"
  /\ Len(Returned.timeline) = 4
  /\ Len(compress(Returned.timeline)) = 3
  /\ \E b \in 1..3 : compress(Returned.timeline)[b].id = IDLE

\* C12: every block of the compressed timeline has duration >= 1, adjacent
\* blocks have different ids, and the durations sum to the length of the
\* timeline, which is the total execution time the output shows.
C12_BlocksMerged ==
  pc = "done" =>
    LET blocks == compress(Returned.timeline)
    IN /\ \A b \in 1..Len(blocks) : blocks[b].duration >= 1
       /\ \A b \in 1..(Len(blocks) - 1) : blocks[b].id # blocks[b + 1].id
       /\ totalDuration(blocks) = Len(Returned.timeline)

\* Two processes with the same id run back to back and share one block.
C12_Witness ==
  /\ pc = "done"
  /\ Len(loop.done) = 2
  /\ loop.done[1].pid = loop.done[2].pid
  /\ loop.done[2].waiting > 0
  /\ Len(compress(Returned.timeline)) = 1
  /\ compress(Returned.timeline)[1].duration = 4

\* ------------------------------------------------- claims about the rows
\* C13: after any sequence of addProcess, removeProcess, resetProcesses and
\* arrival or burst edits the ids are unique and positional, the row at
\* index i (from 0) having pid "P" + (i + 1); removeProcess(i) keeps the
\* arrival and burst values of the remaining rows and their order.
C13_PositionalIds ==
  /\ [](/\ \A k \in 1..Len(processes) : processes[k].pid = PidOf(k)
        /\ \A j, k \in 1..Len(processes) :
             processes[j].pid = processes[k].pid => j = k)
  /\ [][RemoveProcess =>
          \E i \in 1..Len(processes) :
            /\ Len(processes') = Len(processes) - 1
            /\ \A k \in 1..Len(processes') :
                 LET from == IF k < i THEN k ELSE k + 1
                 IN /\ processes'[k].arrival = processes[from].arrival
                    /\ processes'[k].burst = processes[from].burst]_vars

\* After a removal three rows are left and the only filled one is the last.
C13_Witness ==
  /\ lastOp = "removeProcess"
  /\ Len(processes) = 3
  /\ IsNull(processes[1].arrival) /\ IsNull(processes[1].burst)
  /\ IsNull(processes[2].arrival) /\ IsNull(processes[2].burst)
  /\ processes[3].arrival = Some(1)
  /\ processes[3].burst = Some(1)
  /\ processes[3].pid = PidOf(3)

\* --------------------------------------------- more claims about fcfs
\* The permutations of 1..n.
Perms(n) == { f \in [1..n -> 1..n] : \A j, k \in 1..n : f[j] = f[k] => j = k }

\* The list s in the order f.
Reorder(s, f) == [k \in 1..Len(s) |-> s[f[k]]]

\* C14: fcfs called again on the same list returns the same timeline and
\* results, and for a list with pairwise distinct ids it returns them for
\* every reordering of the list.
C14_OrderIndependent ==
  pc = "done" =>
    /\ fcfs(input) = Returned
    /\ DistinctPids(input) =>
         \A f \in Perms(Len(input)) : fcfs(Reorder(input, f)) = Returned

\* The later arrival is listed first; the two ids differ.
C14_Witness ==
  /\ pc = "done"
  /\ Len(input) = 2
  /\ DistinctPids(input)
  /\ input[1].arrival > input[2].arrival
  /\ AsInput(loop.done[1]) = input[2]
  /\ AsInput(loop.done[2]) = input[1]

\* ------------------------------------- simulate on rows of type Process
\* Rows of the type Process: the pid any string (here P1, P2 or a space),
\* arrival and burst a number or "".  The form itself only produces the
\* pids P1, P2, ... and digits, so the rows it can hold are among these.
TypedPids == { PidOf(1), PidOf(2), <<" ">> }
TypedArrivals == { Null, Some(0 - 1), Some(0), Some(MAX_TIME_UNIT + 1) }
TypedBursts == { Null, Some(0), Some(1), Some(MAX_TIME_UNIT + 1) }
TypedRows == [pid : TypedPids, arrival : TypedArrivals, burst : TypedBursts]

Batches == UNION { [1..n -> TypedRows] : n \in 0..MaxBatch }

InitValidate ==
  /\ processes \in Batches
  /\ results = Null
  /\ timeline = Null
  /\ error = <<>>
  /\ edits = 0
  /\ lastOp = "mount"
  /\ fcfsArg = Null
  /\ InitIdleFcfs

NextValidate == Simulate

SpecValidate == InitValidate /\ [][NextValidate]_vars

\* The message of the row p by the order of the rules: blank pid,
\* incomplete, not a number, out of range, too large.
RowNotNumber(p) == RowFilled(p) /\ (Val(p.arrival) \notin Int \/ Val(p.burst) \notin Int)

RowMessage(p) ==
  IF RowBlankPid(p) THEN MsgEmptyPid
  ELSE IF RowIncomplete(p) THEN MsgIncomplete(p.pid)
  ELSE IF RowNotNumber(p) THEN MsgNotNumber(p.pid)
  ELSE IF RowOutOfRange(p) THEN MsgOutOfRange(p.pid)
  ELSE IF RowTooLarge(p) THEN MsgTooLarge(p.pid)
  ELSE <<>>

\* The number of rules the row p violates.
RulesViolated(p) ==
  Cardinality({ r \in 1..4 :
                  \/ r = 1 /\ RowBlankPid(p)
                  \/ r = 2 /\ RowIncomplete(p)
                  \/ r = 3 /\ RowOutOfRange(p)
                  \/ r = 4 /\ RowTooLarge(p) })

\* C15: simulate sets one message, that of the first violation met: the
\* first row in row order that violates a rule decides it, whatever the rows
\* after it hold, and within that row the rules are taken in the order blank
\* pid, incomplete, not a number, out of range, too large; the message for an
\* empty batch comes only when no row violates a rule.
C15_FirstViolationWins ==
  [][Simulate =>
       /\ \A k \in 1..Len(processes) :
            FirstViolation(processes, k) =>
              /\ error' = RowMessage(processes[k])
              /\ Rejected'
       /\ (\A k \in 1..Len(processes) : ~RowViolates(processes[k])) =>
            error' = (IF EmptyBatch(processes) THEN MsgEmptyBatch ELSE <<>>)]_vars

\* Row P1 is out of range and too large at once and row two has a blank pid:
\* the message is the out-of-range one for P1.
C15_Witness ==
  /\ lastOp = "simulate"
  /\ Len(processes) = 2
  /\ processes[1].pid = PidOf(1)
  /\ RulesViolated(processes[1]) = 2
  /\ RowOutOfRange(processes[1])
  /\ RowTooLarge(processes[1])
  /\ RowBlankPid(processes[2])
  /\ error = MsgOutOfRange(PidOf(1))

\* ------------------------------------------ claims about the shown state
\* C16: in every state reachable by updateField, addProcess, removeProcess,
\* resetProcesses and simulate in any order, results is null exactly when
\* timeline is null, and while error is non-empty both are null.
C16_ErrorOrSchedule ==
  /\ IsNull(results) <=> IsNull(timeline)
  /\ Len(error) > 0 => IsNull(results) /\ IsNull(timeline)

\* A row was added while the message of a rejected request is still shown.
C16_Witness ==
  /\ lastOp = "addProcess"
  /\ Len(error) > 0
  /\ IsNull(results)
  /\ IsNull(timeline)

\* ------------------------------------------------------ work conservation
\* C17: a unit of the returned timeline at time t is IDLE only if every
\* process with arrival <= t has completion <= t, and no process holds a
\* unit before its arrival: every non-IDLE unit at time t carries the id of
\* a process that has arrived by t and whose interval covers t.
C17_WorkConserving ==
  pc = "done" =>
    LET res == Returned.results
        tl == Returned.timeline
    IN /\ \A t \in 0..(Len(tl) - 1) :
            IF tl[t + 1] = IDLE
              THEN \A k \in 1..Len(res) :
                     res[k].arrival <= t => res[k].completion <= t
              ELSE \E k \in 1..Len(res) :
                     /\ res[k].pid = tl[t + 1]
                     /\ res[k].arrival <= t
                     /\ res[k].completion - res[k].burst <= t
                     /\ t < res[k].completion
       /\ \A k \in 1..Len(res) : res[k].completion - res[k].burst >= res[k].arrival

\* The server is idle at time 1: the first process is finished and the
\* second, listed first in the input, arrives at 2.
C17_Witness ==
  /\ pc = "done"
  /\ Len(input) = 2
  /\ input[1].arrival = 2
  /\ input[2].arrival = 0
  /\ loop.timeline[1] = input[2].pid
  /\ loop.timeline[2] = IDLE
  /\ loop.timeline[3] = input[1].pid

====
